---- MODULE Spec2Model ----
(***************************************************************************)
(* Model of ControlPanel (src/src/ui/control_panel.py): the selection      *)
(* state, the enabled flags and displayed values of its widgets, the       *)
(* events it emits and the one field of a Fragment it writes.              *)
(*                                                                         *)
(* Qt semantics used: a widget is usable iff neither it nor an enclosing   *)
(* widget was disabled with setEnabled(False); setEnabled(True) on a child *)
(* of a disabled group box only clears the child's own flag.  A widget     *)
(* whose signals are blocked emits no valueChanged/stateChanged.           *)
(*                                                                         *)
(* A Fragment's opacity is a Python float; the model holds it as the       *)
(* integer h with opacity = h/100.0 (the floats the slider produces).      *)
(***************************************************************************)
EXTENDS Integers, Sequences, FiniteSets, TLC

VARIABLES
    fragments,              \* the document's Fragment objects, by identity
    current_fragment,       \* self.current_fragment: a Fragment or None
    selected_fragment_ids,  \* self.selected_fragment_ids
    is_group_selected,      \* self.is_group_selected
    enabled,                \* widget -> its own enabled flag
    x_spinbox,              \* displayed values
    y_spinbox,
    angle_spinbox,
    visible_checkbox,
    opacity_slider,
    opacity_label,
    name_label,
    size_label,
    file_label,
    flip_style,             \* highlight of flip_h_btn / flip_v_btn
    emitted,                \* events emitted by the last operation, in order
    raised,                 \* the last operation ended in an exception
    moves,                  \* translate batches the collaborator has applied
    lastOp                  \* the last operation and how it was invoked

vars == <<fragments, current_fragment, selected_fragment_ids, is_group_selected,
          enabled, x_spinbox, y_spinbox, angle_spinbox, visible_checkbox,
          opacity_slider, opacity_label, name_label, size_label,
          file_label, flip_style, emitted, raised, moves, lastOp>>

selection == <<current_fragment, selected_fragment_ids, is_group_selected>>

display == <<x_spinbox, y_spinbox, angle_spinbox, visible_checkbox,
             opacity_slider, opacity_label>>

widgets == <<enabled, x_spinbox, y_spinbox, angle_spinbox, visible_checkbox,
             opacity_slider, opacity_label, name_label, size_label,
             file_label, flip_style>>

----------------------------------------------------------------------------
(* Bounds of the model *)

MaxIds == 2          \* longest id list / fragment list passed to the panel
MaxMoves == 1        \* translate batches the collaborator applies

(* Program constants *)

ArrowStep == 10      \* arrow buttons translate by 10 units
QuickAngle == 45     \* the 45 / -45 buttons
AngleMax == 360      \* angle_spinbox.setRange(-360.0, 360.0)
CoordMax == 999999   \* x_spinbox.setRange(-999999, 999999)
SliderMax == 100     \* opacity_slider.setRange(0, 100)
Checked == 2         \* Qt.CheckState.Checked.value

None == "None"
FragIds == {"a", "b"}
GroupMarker == "group"

InitCoords == {0, ArrowStep}
SpinEdits == {5}
AngleEdits == {QuickAngle}
SliderMoves == {29}
CheckStates == {0, Checked}

----------------------------------------------------------------------------
(* Values carried by events: None, a pair, a number, a bool, an id list *)

NoneV == [kind |-> "none", a |-> 0, b |-> 0, ids |-> <<>>]
PairV(dx, dy) == [kind |-> "pair", a |-> dx, b |-> dy, ids |-> <<>>]
NumV(n) == [kind |-> "num", a |-> n, b |-> 0, ids |-> <<>>]
BoolV(t) == [kind |-> "bool", a |-> IF t THEN 1 ELSE 0, b |-> 0, ids |-> <<>>]
ListV(l) == [kind |-> "list", a |-> 0, b |-> 0, ids |-> l]

transform_requested(id, type, value) ==
    [sig |-> "transform_requested", id |-> id, type |-> type, value |-> value]

reset_transform_requested(id) ==
    [sig |-> "reset_transform_requested", id |-> id, type |-> "", value |-> NoneV]

\* outcome of a call: the events it emitted, and whether it raised
Returned(ev) == [emitted |-> ev, raised |-> FALSE]
TypeError == [emitted |-> <<>>, raised |-> TRUE]

----------------------------------------------------------------------------
(* Widgets *)

TransformWidgets == {"rotate_ccw_btn", "rotate_cw_btn", "angle_spinbox",
                     "angle_45_btn", "angle_neg45_btn", "flip_h_btn",
                     "flip_v_btn", "reset_btn"}
PositionWidgets == {"x_spinbox", "y_spinbox", "up_btn", "left_btn",
                    "center_btn", "right_btn", "down_btn"}
DisplayWidgets == {"visible_checkbox", "opacity_slider"}
GroupBoxes == {"transform_group", "position_group", "display_group"}
Controls == TransformWidgets \cup PositionWidgets \cup DisplayWidgets
Widgets == GroupBoxes \cup Controls

Parent(w) ==
    IF w \in TransformWidgets THEN "transform_group"
    ELSE IF w \in PositionWidgets THEN "position_group"
    ELSE "display_group"

\* QWidget.isEnabled() of a control inside a group box
EffEnabled(w) == enabled[w] /\ enabled[Parent(w)]

SetEnabled(en, ws, flag) == [w \in Widgets |-> IF w \in ws THEN flag ELSE en[w]]

----------------------------------------------------------------------------
(* Fragment (external entity): the attributes the panel reads *)

FragName(f) == IF f = "a" THEN "" ELSE "piece"
FragSize(f) == IF f = "a" THEN <<100, 50>> ELSE <<64, 64>>
FragFile(f) == "/img/" \o f \o ".png"

\* the documents the panel is constructed over: "a" is a fragment as loaded,
\* "b" one that was moved, rotated, flipped, made translucent
Documents ==
    {[f \in FragIds |->
        IF f = "a"
        THEN [id |-> f, x |-> 0, y |-> 0, rotation |-> 0, visible |-> TRUE,
              opacity |-> SliderMax, flip_horizontal |-> FALSE,
              flip_vertical |-> FALSE]
        ELSE [id |-> f, x |-> bx, y |-> ArrowStep, rotation |-> 90,
              visible |-> bv, opacity |-> 50, flip_horizontal |-> TRUE,
              flip_vertical |-> FALSE]]
     : bx \in InitCoords, bv \in {FALSE}}

\* value / 100.0: the float that is `value` hundredths
DivBy100(value) == value

\* int(opacity * 100) in IEEE doubles, opacity = h / 100.0, h in 0..100:
\* 0.29 * 100 = 28.999999999999996, 0.57 * 100 = 56.99999999999999,
\* 0.58 * 100 = 57.99999999999999; every other product is the integer h
IntTimes100(h) == IF h \in {29, 57, 58} THEN h - 1 ELSE h

\* f"{n}%"
PercentLabel(n) == ToString(n) \o "%"

\* QDoubleSpinBox.setValue / QSlider.setValue: the value is brought into range
SetValue(v, lo, hi) == IF v < lo THEN lo ELSE IF v > hi THEN hi ELSE v

\* events of the slot connected to a valueChanged / stateChanged signal when
\* the widget's value is set from old to new
Signal(blocked, old, new, slot) == IF blocked \/ old = new THEN <<>> ELSE slot

----------------------------------------------------------------------------
(* Requests and change handlers, over the selection state (cf, grp, ids) *)

\* mutant: the translate value is unpacked before the mode is looked at
request_transform_unpacks_first(cf, grp, ids, type, value) ==
    IF type = "translate" /\ value.kind # "pair" THEN TypeError
    ELSE IF grp THEN
        IF type \in {"rotate_cw", "rotate_ccw"}
        THEN Returned(<<transform_requested(GroupMarker, type, ListV(ids))>>)
        ELSE IF type = "translate"
        THEN Returned([i \in 1..Len(ids) |->
                         transform_requested(ids[i], type, value)])
        ELSE Returned(<<>>)
    ELSE IF cf # None
    THEN Returned(<<transform_requested(fragments[cf].id, type, value)>>)
    ELSE Returned(<<>>)

\* mutant: a group translation is sent once, to the group marker
request_transform_to_marker(cf, grp, ids, type, value) ==
    IF grp THEN
        IF type \in {"rotate_cw", "rotate_ccw"}
        THEN Returned(<<transform_requested(GroupMarker, type, ListV(ids))>>)
        ELSE IF type = "translate"
        THEN IF value.kind # "pair" THEN TypeError
             ELSE Returned(<<transform_requested(GroupMarker, type, value)>>)
        ELSE Returned(<<>>)
    ELSE IF cf # None
    THEN Returned(<<transform_requested(fragments[cf].id, type, value)>>)
    ELSE Returned(<<>>)


request_transform(cf, grp, ids, type, value) ==
    IF grp THEN
        IF type \in {"rotate_cw", "rotate_ccw"}
        THEN Returned(<<transform_requested(GroupMarker, type, ListV(ids))>>)
        ELSE IF type = "translate"
        THEN IF value.kind # "pair" THEN TypeError    \* dx, dy = value
             ELSE Returned([i \in 1..Len(ids) |->
                              transform_requested(ids[i], type, value)])
        ELSE Returned(<<>>)
    ELSE IF cf # None
    THEN Returned(<<transform_requested(fragments[cf].id, type, value)>>)
    ELSE Returned(<<>>)

\* mutant: the id list is reset whenever it is not empty
request_reset_by_ids(cf, grp, ids) ==
    IF ids # <<>>
    THEN Returned([i \in 1..Len(ids) |-> reset_transform_requested(ids[i])])
    ELSE IF cf # None
    THEN Returned(<<reset_transform_requested(fragments[cf].id)>>)
    ELSE Returned(<<>>)


request_reset(cf, grp, ids) ==
    IF grp
    THEN Returned([i \in 1..Len(ids) |-> reset_transform_requested(ids[i])])
    ELSE IF cf # None
    THEN Returned(<<reset_transform_requested(fragments[cf].id)>>)
    ELSE Returned(<<>>)

\* new_x, new_y: the values of x_spinbox and y_spinbox when the slot runs
on_position_changed(cf, grp, ids, new_x, new_y) ==
    IF cf # None
    THEN request_transform(cf, grp, ids, "translate",
                           PairV(new_x - fragments[cf].x, new_y - fragments[cf].y))
    ELSE Returned(<<>>)

on_visibility_changed(cf, state) ==
    IF cf # None
    THEN Returned(<<transform_requested(fragments[cf].id, "set_visibility",
                                        BoolV(state = Checked))>>)
    ELSE Returned(<<>>)

on_angle_changed(cf, grp, ids, new_angle) ==
    IF cf # None
    THEN request_transform(cf, grp, ids, "set_rotation", NumV(new_angle))
    ELSE Returned(<<>>)

\* mutant: the slider value is stored without the division by 100
OpacityWrittenUnscaled(cf, value) ==
    IF cf # None THEN [fragments EXCEPT ![cf].opacity = DivBy100(value * 100)]
    ELSE fragments

\* on_opacity_changed: the fragments after the slot ran, and the label
OpacityWritten(cf, value) ==
    IF cf # None THEN [fragments EXCEPT ![cf].opacity = DivBy100(value)]
    ELSE fragments

OpacityLabelled(cf, value) ==
    IF cf # None THEN PercentLabel(value) ELSE opacity_label

----------------------------------------------------------------------------
(* update_controls *)

has_fragment(cf, grp) == cf # None \/ grp

\* the three group boxes
BoxEnables(en, cf, grp) ==
    [en EXCEPT !["transform_group"] = has_fragment(cf, grp),
               !["position_group"] = has_fragment(cf, grp) /\ ~grp,
               !["display_group"] = has_fragment(cf, grp)]

\* mutant: the group branch leaves the display controls as they were
GroupEnablesKeepsDisplay(en) ==
    LET on == {"rotate_cw_btn", "rotate_ccw_btn", "up_btn", "down_btn",
               "left_btn", "right_btn", "center_btn"}
        off == {"angle_spinbox", "angle_45_btn", "angle_neg45_btn",
                "x_spinbox", "y_spinbox", "flip_h_btn", "flip_v_btn"}
    IN SetEnabled(SetEnabled(en, on, TRUE), off, FALSE)

\* branch `if self.is_group_selected`
GroupEnables(en) ==
    LET on == {"rotate_cw_btn", "rotate_ccw_btn", "up_btn", "down_btn",
               "left_btn", "right_btn", "center_btn"}
        off == {"angle_spinbox", "angle_45_btn", "angle_neg45_btn",
                "x_spinbox", "y_spinbox", "flip_h_btn", "flip_v_btn",
                "visible_checkbox", "opacity_slider"}
    IN SetEnabled(SetEnabled(en, on, TRUE), off, FALSE)

\* mutant: the single branch does not enable the position spin boxes again
SingleEnablesKeepsSpins(en) ==
    SetEnabled(en, {"angle_spinbox", "angle_45_btn", "angle_neg45_btn",
                    "rotate_cw_btn", "rotate_ccw_btn", "flip_h_btn",
                    "flip_v_btn", "visible_checkbox", "opacity_slider"}, TRUE)

\* branch `elif has_fragment and not self.is_group_selected`
SingleEnables(en) ==
    SetEnabled(en, {"angle_spinbox", "angle_45_btn", "angle_neg45_btn",
                    "rotate_cw_btn", "rotate_ccw_btn", "flip_h_btn",
                    "flip_v_btn", "x_spinbox", "y_spinbox",
                    "visible_checkbox", "opacity_slider"}, TRUE)

\* blockSignals(True) brackets every setValue / setChecked of the refresh
blockSignals == TRUE

update_transform_button_states(cf) ==
    IF cf = None THEN flip_style
    ELSE [h |-> fragments[cf].flip_horizontal, v |-> fragments[cf].flip_vertical]

\* the single-fragment refresh: the values pushed into the controls, and the
\* slots the pushes would run were the signals not blocked
Refresh(cf) ==
    LET frag == fragments[cf]
        nx == SetValue(frag.x, -CoordMax, CoordMax)
        ny == SetValue(frag.y, -CoordMax, CoordMax)
        na == SetValue(frag.rotation, -AngleMax, AngleMax)
        no == SetValue(IntTimes100(frag.opacity), 0, SliderMax)
        written == blockSignals \/ no = opacity_slider
    IN [x |-> nx, y |-> ny, angle |-> na, visible |-> frag.visible,
        slider |-> no,
        label |-> PercentLabel(IntTimes100(frag.opacity)),
        fragments |-> IF written THEN fragments ELSE OpacityWritten(cf, no),
        emitted |->
            Signal(blockSignals, x_spinbox, nx,
                   on_position_changed(cf, FALSE, <<>>, nx, y_spinbox).emitted)
         \o Signal(blockSignals, y_spinbox, ny,
                   on_position_changed(cf, FALSE, <<>>, nx, ny).emitted)
         \o Signal(blockSignals, angle_spinbox, na,
                   on_angle_changed(cf, FALSE, <<>>, na).emitted)
         \o Signal(blockSignals, visible_checkbox, frag.visible,
                   on_visibility_changed(cf, IF frag.visible THEN Checked ELSE 0).emitted)]

update_controls(cf, grp, ids) ==
    LET en == BoxEnables(enabled, cf, grp) IN
    IF grp THEN
        /\ enabled' = GroupEnables(en)
        /\ name_label' = "Group Selection (" \o ToString(Len(ids)) \o " fragments)"
        /\ size_label' = "Size: Multiple"
        /\ file_label' = "File: Multiple"
        /\ emitted' = <<>>
        /\ UNCHANGED <<display, flip_style, fragments>>
    ELSE IF has_fragment(cf, grp) /\ ~grp THEN
        LET r == Refresh(cf) IN
        /\ enabled' = SingleEnables(en)
        /\ name_label' = (IF FragName(cf) # "" THEN FragName(cf)
                          ELSE "Fragment " \o fragments[cf].id)
        /\ size_label' = "Size: " \o ToString(FragSize(cf)[1]) \o " x "
                                  \o ToString(FragSize(cf)[2])
        /\ file_label' = "File: " \o FragFile(cf)
        /\ x_spinbox' = r.x
        /\ y_spinbox' = r.y
        /\ angle_spinbox' = r.angle
        /\ visible_checkbox' = r.visible
        /\ opacity_slider' = r.slider
        /\ opacity_label' = r.label
        /\ fragments' = r.fragments
        /\ emitted' = r.emitted
        /\ flip_style' = update_transform_button_states(cf)
    ELSE
        /\ enabled' = en
        /\ name_label' = "No selection"
        /\ size_label' = "Size: -"
        /\ file_label' = "File: -"
        /\ emitted' = <<>>
        /\ UNCHANGED <<display, flip_style, fragments>>

----------------------------------------------------------------------------
(* Construction *)

\* "none", "single" or "group", as update_controls branches
Mode(cf, grp) == IF grp THEN "group" ELSE IF cf # None THEN "single" ELSE "none"

\* an operation, how it was invoked ("call", or the control the user worked),
\* its arguments, and the mode the panel was in when it was invoked
Op(op, via, type, value) ==
    [op |-> op, via |-> via, type |-> type, value |-> value,
     mode |-> Mode(current_fragment, is_group_selected)]

Init ==
    /\ fragments \in Documents
    /\ current_fragment = None
    /\ selected_fragment_ids = <<>>
    /\ is_group_selected = FALSE
    /\ enabled = BoxEnables([w \in Widgets |-> TRUE], None, FALSE)
    /\ x_spinbox = 0
    /\ y_spinbox = 0
    /\ angle_spinbox = 0
    /\ visible_checkbox = FALSE
    /\ opacity_slider = SliderMax
    /\ opacity_label = "100%"
    /\ name_label = "No selection"
    /\ size_label = "Size: -"
    /\ file_label = "File: -"
    /\ flip_style = [h |-> FALSE, v |-> FALSE]
    /\ emitted = <<>>
    /\ raised = FALSE
    /\ moves = 0
    /\ lastOp = [op |-> "__init__", via |-> "call", type |-> "", value |-> NoneV,
                 mode |-> "none"]

----------------------------------------------------------------------------
(* Selection *)

RECURSIVE SeqsUpTo(_, _)
SeqsUpTo(S, n) ==
    IF n = 0 THEN {<<>>}
    ELSE LET shorter == SeqsUpTo(S, n - 1)
         IN shorter \cup {Append(s, e) : s \in {t \in shorter : Len(t) = n - 1}, e \in S}

\* fragment lists the owning window passes: distinct fragments of the document
FragLists == {<<>>, <<"a">>, <<"b", "a">>}

\* mutant: one id already counts as a group
IsGroupFromOne(fragment_ids) == Len(fragment_ids) > 0


IsGroup(fragment_ids) == Len(fragment_ids) > 1

FirstOrNone(frags) == IF frags # <<>> THEN frags[1] ELSE None

set_selected_fragment(fragment) ==
    /\ current_fragment' = fragment
    /\ selected_fragment_ids' = <<>>
    /\ is_group_selected' = FALSE
    /\ update_controls(fragment, FALSE, <<>>)
    /\ raised' = FALSE
    /\ lastOp' = Op("set_selected_fragment", "call", "", NoneV)
    /\ UNCHANGED moves

set_selected_fragments(fragment_ids, frags) ==
    /\ selected_fragment_ids' = fragment_ids
    /\ is_group_selected' = IsGroup(fragment_ids)
    /\ current_fragment' = FirstOrNone(frags)
    /\ update_controls(FirstOrNone(frags), IsGroup(fragment_ids), fragment_ids)
    /\ raised' = FALSE
    /\ lastOp' = Op("set_selected_fragments", "call", "", NoneV)
    /\ UNCHANGED moves

----------------------------------------------------------------------------
(* Calls of the panel's methods by the owning window *)

TransformKinds == {"rotate_cw", "rotate_ccw", "rotate_angle", "flip_horizontal",
                   "flip_vertical", "translate", "set_rotation", "set_visibility"}

CallValues == {NoneV, PairV(5, 0)}

\* an operation that leaves the selection alone ended with outcome r
Outcome(r, op) ==
    /\ emitted' = r.emitted
    /\ raised' = r.raised
    /\ lastOp' = op
    /\ UNCHANGED <<selection, moves>>

call_request_transform(type, value) ==
    /\ Outcome(request_transform(current_fragment, is_group_selected,
                                 selected_fragment_ids, type, value),
               Op("request_transform", "call", type, value))
    /\ UNCHANGED <<fragments, widgets>>

call_request_reset ==
    /\ Outcome(request_reset(current_fragment, is_group_selected,
                             selected_fragment_ids),
               Op("request_reset", "call", "", NoneV))
    /\ UNCHANGED <<fragments, widgets>>

call_on_position_changed ==
    /\ Outcome(on_position_changed(current_fragment, is_group_selected,
                                   selected_fragment_ids, x_spinbox, y_spinbox),
               Op("on_position_changed", "call", "", NoneV))
    /\ UNCHANGED <<fragments, widgets>>

call_on_angle_changed ==
    /\ Outcome(on_angle_changed(current_fragment, is_group_selected,
                                selected_fragment_ids, angle_spinbox),
               Op("on_angle_changed", "call", "", NoneV))
    /\ UNCHANGED <<fragments, widgets>>

call_on_visibility_changed(state) ==
    /\ Outcome(on_visibility_changed(current_fragment, state),
               Op("on_visibility_changed", "call", "", NumV(state)))
    /\ UNCHANGED <<fragments, widgets>>

call_on_opacity_changed(value) ==
    /\ fragments' = OpacityWritten(current_fragment, value)
    /\ opacity_label' = OpacityLabelled(current_fragment, value)
    /\ Outcome(Returned(<<>>), Op("on_opacity_changed", "call", "", NumV(value)))
    /\ UNCHANGED <<enabled, x_spinbox, y_spinbox, angle_spinbox, visible_checkbox,
                   opacity_slider, name_label, size_label, file_label, flip_style>>

----------------------------------------------------------------------------
(* The user working the controls: only a usable control reacts *)

Buttons == {"rotate_ccw_btn", "rotate_cw_btn", "angle_45_btn", "angle_neg45_btn",
            "flip_h_btn", "flip_v_btn", "up_btn", "left_btn", "center_btn",
            "right_btn", "down_btn"}

\* the lambdas connected to clicked
Wiring(btn) ==
    CASE btn = "rotate_ccw_btn" -> [type |-> "rotate_ccw", value |-> NoneV]
      [] btn = "rotate_cw_btn" -> [type |-> "rotate_cw", value |-> NoneV]
      [] btn = "angle_45_btn" -> [type |-> "rotate_angle", value |-> NumV(QuickAngle)]
      [] btn = "angle_neg45_btn" -> [type |-> "rotate_angle", value |-> NumV(-QuickAngle)]
      [] btn = "flip_h_btn" -> [type |-> "flip_horizontal", value |-> NoneV]
      [] btn = "flip_v_btn" -> [type |-> "flip_vertical", value |-> NoneV]
      [] btn = "up_btn" -> [type |-> "translate", value |-> PairV(0, -ArrowStep)]
      [] btn = "left_btn" -> [type |-> "translate", value |-> PairV(-ArrowStep, 0)]
      [] btn = "center_btn" -> [type |-> "translate", value |-> PairV(0, 0)]
      [] btn = "right_btn" -> [type |-> "translate", value |-> PairV(ArrowStep, 0)]
      [] btn = "down_btn" -> [type |-> "translate", value |-> PairV(0, ArrowStep)]

click(btn) ==
    /\ EffEnabled(btn)
    /\ Outcome(request_transform(current_fragment, is_group_selected,
                                 selected_fragment_ids,
                                 Wiring(btn).type, Wiring(btn).value),
               Op("request_transform", btn, Wiring(btn).type, Wiring(btn).value))
    /\ UNCHANGED <<fragments, widgets>>

click_reset ==
    /\ EffEnabled("reset_btn")
    /\ Outcome(request_reset(current_fragment, is_group_selected,
                             selected_fragment_ids),
               Op("request_reset", "reset_btn", "", NoneV))
    /\ UNCHANGED <<fragments, widgets>>

edit_x(v) ==
    /\ EffEnabled("x_spinbox")
    /\ v # x_spinbox
    /\ x_spinbox' = v
    /\ Outcome(on_position_changed(current_fragment, is_group_selected,
                                   selected_fragment_ids, v, y_spinbox),
               Op("on_position_changed", "x_spinbox", "", NumV(v)))
    /\ UNCHANGED <<fragments, enabled, y_spinbox, angle_spinbox, visible_checkbox,
                   opacity_slider, opacity_label, name_label, size_label,
                   file_label, flip_style>>

edit_y(v) ==
    /\ EffEnabled("y_spinbox")
    /\ v # y_spinbox
    /\ y_spinbox' = v
    /\ Outcome(on_position_changed(current_fragment, is_group_selected,
                                   selected_fragment_ids, x_spinbox, v),
               Op("on_position_changed", "y_spinbox", "", NumV(v)))
    /\ UNCHANGED <<fragments, enabled, x_spinbox, angle_spinbox, visible_checkbox,
                   opacity_slider, opacity_label, name_label, size_label,
                   file_label, flip_style>>

edit_angle(v) ==
    /\ EffEnabled("angle_spinbox")
    /\ v # angle_spinbox
    /\ angle_spinbox' = v
    /\ Outcome(on_angle_changed(current_fragment, is_group_selected,
                                selected_fragment_ids, v),
               Op("on_angle_changed", "angle_spinbox", "", NumV(v)))
    /\ UNCHANGED <<fragments, enabled, x_spinbox, y_spinbox, visible_checkbox,
                   opacity_slider, opacity_label, name_label, size_label,
                   file_label, flip_style>>

toggle_visible ==
    /\ EffEnabled("visible_checkbox")
    /\ visible_checkbox' = ~visible_checkbox
    /\ Outcome(on_visibility_changed(current_fragment,
                                     IF ~visible_checkbox THEN Checked ELSE 0),
               Op("on_visibility_changed", "visible_checkbox", "", NoneV))
    /\ UNCHANGED <<fragments, enabled, x_spinbox, y_spinbox, angle_spinbox,
                   opacity_slider, opacity_label, name_label, size_label,
                   file_label, flip_style>>

move_opacity(v) ==
    /\ EffEnabled("opacity_slider")
    /\ v # opacity_slider
    /\ opacity_slider' = v
    /\ fragments' = OpacityWritten(current_fragment, v)
    /\ opacity_label' = OpacityLabelled(current_fragment, v)
    /\ Outcome(Returned(<<>>), Op("on_opacity_changed", "opacity_slider", "", NumV(v)))
    /\ UNCHANGED <<enabled, x_spinbox, y_spinbox, angle_spinbox, visible_checkbox,
                   name_label, size_label, file_label, flip_style>>

----------------------------------------------------------------------------
(* The collaborator that consumes transform_requested: it applies the      *)
(* translate events just emitted to the fragments they address; the panel  *)
(* is not told.                                                            *)

Translated(frs, e) ==
    IF e.sig = "transform_requested" /\ e.type = "translate" /\ e.id \in FragIds
    THEN [frs EXCEPT ![e.id].x = @ + e.value.a, ![e.id].y = @ + e.value.b]
    ELSE frs

RECURSIVE Applied(_, _)
Applied(frs, evs) ==
    IF evs = <<>> THEN frs ELSE Applied(Translated(frs, Head(evs)), Tail(evs))

apply_translate ==
    /\ moves < MaxMoves
    /\ Applied(fragments, emitted) # fragments
    /\ fragments' = Applied(fragments, emitted)
    /\ moves' = moves + 1
    /\ emitted' = <<>>
    /\ raised' = FALSE
    /\ lastOp' = Op("apply_translate", "collaborator", "", NoneV)
    /\ UNCHANGED <<selection, widgets>>

----------------------------------------------------------------------------
NextSelect ==
    \/ \E f \in FragIds \cup {None} : set_selected_fragment(f)
    \/ \E ids \in SeqsUpTo(FragIds, MaxIds), fl \in FragLists :
          set_selected_fragments(ids, fl)

NextCalls ==
    \/ \E type \in TransformKinds, value \in CallValues :
          call_request_transform(type, value)
    \/ call_request_reset
    \/ call_on_position_changed
    \/ call_on_angle_changed
    \/ \E state \in CheckStates : call_on_visibility_changed(state)
    \/ \E value \in SliderMoves : call_on_opacity_changed(value)

NextUser ==
    \/ \E btn \in Buttons : click(btn)
    \/ click_reset
    \/ \E v \in SpinEdits : edit_x(v)
    \/ \E v \in SpinEdits : edit_y(v)
    \/ \E v \in AngleEdits : edit_angle(v)
    \/ toggle_visible
    \/ \E v \in SliderMoves : move_opacity(v)

NextMove ==
    \/ \E f \in FragIds \cup {None} : set_selected_fragment(f)
    \/ \E btn \in Buttons : click(btn)
    \/ \E v \in SpinEdits : edit_x(v)
    \/ apply_translate

Next == NextSelect \/ NextCalls \/ NextUser \/ apply_translate

\* everything that can happen to the panel and the fragments it shows; its
\* state graph is the product of the three below (several million states), and
\* the properties are stated for the specification that holds their operations
Spec == Init /\ [][Next]_vars

\* the owning window selecting and calling the panel's methods
SpecCalls == Init /\ [][NextSelect \/ NextCalls]_vars

\* the owning window selecting, the user at the controls
SpecUser == Init /\ [][NextSelect \/ NextUser]_vars

\* single selections, the buttons, the X spin box, and the collaborator
\* moving the fragments the emitted translate events address
SpecMove == Init /\ [][NextMove]_vars

----------------------------------------------------------------------------
(* Properties *)

Rotate90 == {"rotate_cw_btn", "rotate_ccw_btn"}
ArrowMove == {"up_btn", "down_btn", "left_btn", "right_btn", "center_btn"}
Precise == {"angle_spinbox", "angle_45_btn", "angle_neg45_btn", "flip_h_btn",
            "flip_v_btn", "x_spinbox", "y_spinbox", "visible_checkbox",
            "opacity_slider"}
SelectionOps == {"set_selected_fragment", "set_selected_fragments"}
OtherOps == {"request_transform", "request_reset", "on_position_changed",
             "on_angle_changed", "on_visibility_changed", "on_opacity_changed"}
mode == Mode(current_fragment, is_group_selected)

\* C1: in group mode the rotate-90 buttons and the arrow-move buttons are
\* usable (the button and its group box are enabled), and the angle spin box,
\* the 45 buttons, the flip buttons, the position spin boxes, the visibility
\* checkbox and the opacity slider are not.
C1_GroupEnablement ==
    is_group_selected =>
        /\ \A w \in Rotate90 \cup ArrowMove : EffEnabled(w)
        /\ \A w \in Precise : ~EffEnabled(w)

\* C2: enablement depends on the mode alone: in single mode every control of
\* the policy table is usable, in none mode none of them is, whatever the
\* selections before.
C2_EnablementByMode ==
    /\ mode = "single" => \A w \in Rotate90 \cup ArrowMove \cup Precise : EffEnabled(w)
    /\ mode = "none" => \A w \in Rotate90 \cup ArrowMove \cup Precise : ~EffEnabled(w)

\* C2 witness: a selection call has just taken the panel from group mode to
\* single mode.
C2_SingleAfterGroup ==
    /\ lastOp.op \in SelectionOps
    /\ lastOp.mode = "group"
    /\ mode = "single"

\* C3: is_group_selected holds iff the id list has more than one id;
\* set_selected_fragment leaves the list empty and group mode off.
C3_GroupIffMany ==
    /\ is_group_selected <=> Len(selected_fragment_ids) > 1
    /\ lastOp.op = "set_selected_fragment" =>
          selected_fragment_ids = <<>> /\ ~is_group_selected

\* C3 witness: set_selected_fragments was given two ids.
C3_TwoIdsSelected ==
    /\ lastOp.op = "set_selected_fragments"
    /\ Len(selected_fragment_ids) = 2
    /\ is_group_selected

\* C4: a selection call that shows a fragment sets the displayed x, y, angle,
\* visibility and opacity to the fragment's fields, emits no event and leaves
\* the fragments as they were.
C4_SelectionRefreshes ==
    [][(lastOp'.op \in SelectionOps /\ mode' = "single") =>
          /\ x_spinbox' = fragments'[current_fragment'].x
          /\ y_spinbox' = fragments'[current_fragment'].y
          /\ angle_spinbox' = fragments'[current_fragment'].rotation
          /\ visible_checkbox' = fragments'[current_fragment'].visible
          /\ opacity_slider' = fragments'[current_fragment'].opacity
          /\ opacity_label' = PercentLabel(fragments'[current_fragment'].opacity)
          /\ emitted' = <<>>
          /\ fragments' = fragments]_vars

\* C5: in group mode a rotate_cw / rotate_ccw request emits one event, to the
\* group marker, carrying the id list; a translate request emits one event per
\* id, in list order, each with the requested delta, none to the group marker.
C5_GroupRequests ==
    (lastOp.op = "request_transform" /\ is_group_selected) =>
        /\ lastOp.type \in {"rotate_cw", "rotate_ccw"} =>
              emitted = <<transform_requested(GroupMarker, lastOp.type,
                                              ListV(selected_fragment_ids))>>
        /\ (lastOp.type = "translate" /\ lastOp.value.kind = "pair") =>
              /\ Len(emitted) = Len(selected_fragment_ids)
              /\ \A i \in 1..Len(emitted) :
                    emitted[i] = transform_requested(selected_fragment_ids[i],
                                                     "translate", lastOp.value)

\* C5 witness: a group of two was asked to translate.
C5_GroupTranslated ==
    /\ lastOp.op = "request_transform"
    /\ lastOp.type = "translate"
    /\ is_group_selected
    /\ Len(emitted) = 2

\* what request_reset is to emit in the present selection state
ResetsExpected ==
    IF is_group_selected
    THEN [i \in 1..Len(selected_fragment_ids) |->
            reset_transform_requested(selected_fragment_ids[i])]
    ELSE IF current_fragment # None
    THEN <<reset_transform_requested(current_fragment)>>
    ELSE <<>>

\* C6: request_reset emits one reset_transform_requested per id of the list in
\* group mode, one for the current fragment in single mode, none with no
\* selection; it emits nothing else and changes neither selection nor fragments.
C6_ResetPerSelected ==
    [][lastOp'.op = "request_reset" =>
          /\ emitted' = ResetsExpected
          /\ ~raised'
          /\ UNCHANGED <<selection, fragments>>]_vars

\* C6 witness: a group of two was reset.
C6_GroupReset ==
    /\ lastOp.op = "request_reset"
    /\ is_group_selected
    /\ Len(emitted) = 2

\* C7: with nothing selected every request and change handler emits nothing,
\* raises nothing and changes neither selection nor fragments.
C7_NothingSelectedNoOp ==
    [][(mode = "none" /\ lastOp'.op \in OtherOps) =>
          /\ emitted' = <<>>
          /\ ~raised'
          /\ UNCHANGED <<selection, fragments>>]_vars

\* C7 witness: a translate without a value was requested after
\* set_selected_fragments got one id and no fragment.
C7_CalledWithOneIdNoFragment ==
    /\ mode = "none"
    /\ Len(selected_fragment_ids) = 1
    /\ lastOp.op = "request_transform"
    /\ lastOp.type = "translate"
    /\ lastOp.value = NoneV

\* C8: in single mode, editing the X spin box to v emits exactly one translate
\* for the fragment, with delta v minus the fragment's x on the X axis and 0 on
\* the Y axis.
C8_EditXDelta ==
    (lastOp.op = "on_position_changed" /\ lastOp.via = "x_spinbox"
        /\ mode = "single") =>
        emitted = <<transform_requested(current_fragment, "translate",
                        PairV(x_spinbox - fragments[current_fragment].x, 0))>>

\* C9: the opacity handler writes the current fragment's opacity (value / 100),
\* sets the label to "value%" and emits nothing; no other operation of the
\* panel changes a fragment.
C9_OnlyOpacityWritten ==
    [][IF lastOp'.op = "on_opacity_changed" /\ current_fragment # None
       THEN /\ fragments' = [fragments EXCEPT
                                ![current_fragment].opacity = lastOp'.value.a]
            /\ opacity_label' = ToString(lastOp'.value.a) \o "%"
            /\ emitted' = <<>>
       ELSE fragments' = fragments]_vars

\* C9 witness: in single mode the user moved the slider to 29.
C9_SliderMoved ==
    /\ mode = "single"
    /\ lastOp.op = "on_opacity_changed"
    /\ lastOp.via = "opacity_slider"
    /\ fragments[current_fragment].opacity = 29
    /\ opacity_label = "29%"

\* C10: in group mode what the user does at the controls emits only resets and
\* rotate_cw / rotate_ccw / translate events, addressed to the group marker or
\* to every id of the list and never to the display fragment alone, and writes
\* no fragment.
C10_GroupInteraction ==
    [][(is_group_selected /\ lastOp'.via \in Controls) =>
          /\ \A i \in 1..Len(emitted') :
                \/ emitted'[i].sig = "reset_transform_requested"
                \/ emitted'[i].type \in {"rotate_cw", "rotate_ccw", "translate"}
          /\ \/ emitted' = <<>>
             \/ Len(emitted') = 1 /\ emitted'[1].id = GroupMarker
             \/ /\ Len(emitted') = Len(selected_fragment_ids)
                /\ \A i \in 1..Len(emitted') :
                      emitted'[i].id = selected_fragment_ids[i]
          /\ fragments' = fragments]_vars

\* C10 witness: with a group selected and a display fragment set, the user
\* pressed the clockwise button.
C10_GroupRotatedByUser ==
    /\ is_group_selected
    /\ current_fragment # None
    /\ lastOp.via = "rotate_cw_btn"
    /\ emitted # <<>>

====
